---- MODULE Spec2Model ----
(***************************************************************************)
(* A model of the two programs of the repository:                          *)
(*   src/src/triangle_search.py  (create_num_tree, find_max_sum)           *)
(*   src/src/wifi_search.py      (is_line_segment_intersected,             *)
(*                                is_hotspot_in_building, hotspot_location)*)
(* Python's None is the empty tuple <<>>, a present value v is <<v>>.      *)
(* Object references are positive indices into a heap; 0 is None.          *)
(***************************************************************************)
EXTENDS Integers, Sequences, FiniteSets, TLC

VARIABLES
    \* ---- triangle_search.py ----
    nums,        \* the list of lists handed to create_num_tree
    heap,        \* the NumNode objects constructed so far, by reference
    tree,        \* <<root>> once create_num_tree has returned a NumTree
    stored,      \* nodes whose cached_sum the last find_max_sum assigned, in order
    result,      \* <<s>> once find_max_sum has returned s
    tpc,         \* position of the triangle program
    \* ---- wifi_search.py ----
    segment,     \* <<pt1, pt2, pt3>> of the last is_line_segment_intersected call
    crossed,     \* what that call returned
    cb_pts,      \* CityBuilding.pts: the vertices of the building outline
    hotspot_pt,  \* <<pt>> once is_hotspot_in_building was called with pt
    in_building, \* what that call returned
    bpc,         \* "parse" while the outline is read, "parsed", "checked"
    lines,       \* <<pt1, dxdy1, pt2, dxdy2>> of the last hotspot_location call
    location,    \* what that call returned: None or <<pt>>
    lpc,         \* "call", then "returned" or "raised"
    all_buildings,        \* the CityBuilding objects, in input order
    radar_data,           \* the <<radar_pt, mac_addresses>> read, in input order
    hotspot_radar_lookup, \* what hotspot_radar_locations(radar_data) returned
    pending,              \* the MAC addresses the loop has still to come to
    device,               \* <<what the last MAC address processed went through>>
    printed,              \* the building names printed, in order
    wpc                   \* "city_map", "radar_data", "devices", "reported", "raised"

triVars == <<nums, heap, tree, stored, result, tpc>>
segVars == <<segment, crossed>>
cbVars == <<cb_pts, hotspot_pt, in_building, bpc>>
locVars == <<lines, location, lpc>>
wifiVars == <<all_buildings, radar_data, hotspot_radar_lookup, pending, device, printed, wpc>>

vars == <<triVars, segVars, cbVars, locVars, wifiVars>>

None == <<>>
Some(v) == <<v>>
NoneRef == 0

\* a max that keeps its first argument only
MaxFirst(a, b) == a

\* Python's max of two numbers
Max(a, b) == IF a >= b THEN a ELSE b

(***************************************************************************)
(* Numbers of wifi_search.py, computed exactly (Python's floats without    *)
(* their rounding); a quotient is kept as numerator and denominator.       *)
(* POINT_CMP_TOL is 1 / TolDen.  A coordinate c is c coordinate units, of  *)
(* which POINT_CMP_TOL has TolUnits: with TolUnits = 2 * TolDen, a ray can *)
(* be one unit off an endpoint of a segment whose height is POINT_CMP_TOL  *)
(* and have t = 1 / TolUnits < POINT_CMP_TOL.  A direction component c is  *)
(* c direction units, of which POINT_CMP_TOL has DirTolUnits.              *)
(***************************************************************************)
TolDen == 100000
TolUnits == 2 * TolDen
DirTolUnits == TolUnits \div TolDen

Abs(a) == IF a < 0 THEN 0 - a ELSE a

\* abs(a) < POINT_CMP_TOL, a in units
AbsLtTol(a) == Abs(a) < TolUnits

\* abs(a) < POINT_CMP_TOL, a in direction units
DirAbsLtTol(a) == Abs(a) < DirTolUnits

\* abs(n / d) < POINT_CMP_TOL, that is |n| * TolDen < |d|, for d # 0
RatAbsLtTol(n, d) == Abs(n) <= (Abs(d) - 1) \div TolDen

\* n / d < c, for d # 0
RatLt(n, d, c) == IF d > 0 THEN n < c * d ELSE n > c * d

\* 0 < n / d, for d # 0
RatPos(n, d) == (n > 0 /\ d > 0) \/ (n < 0 /\ d < 0)

\* 2-D points: pt[1] is x, pt[2] is y
\* Building vertices have the even x of Xs; the points asked about have any
\* x of 0..2 * MaxX.  Of the y levels, 0 and 1 are less than the tolerance
\* apart; 0, TolUnits and 2 * TolUnits are not; and 1 is within the
\* tolerance, as a fraction, of the start of a side from 0 to TolUnits.
MaxX == 2
Xs == 0..(2 * MaxX)
Ys == {0, 1, TolUnits, 2 * TolUnits}
VertexXs == {2 * i : i \in 0..MaxX}
SegYs == Ys \cup {2, TolUnits - 1, TolUnits + 1}

(***************************************************************************)
(* is_line_segment_intersected(pt1, pt2, pt3)                              *)
(***************************************************************************)
\* only an exactly horizontal segment is taken for horizontal
IsHorizontalExact(y1, y2) == y1 = y2

\* abs(y1 - y2) < POINT_CMP_TOL
IsHorizontal(y1, y2) == AbsLtTol(y1 - y2)

\* the other vertex must be above the intersected one
VertexCrossingAbove(y_t, y_other_vertex) ==
    y_other_vertex > y_t \/ AbsLtTol(y_t - y_other_vertex)

\* a hit of a vertex counts whatever the other vertex
VertexCrossingAlways(y_t, y_other_vertex) == TRUE

\* y_other_vertex < y_t or abs(y_t - y_other_vertex) < POINT_CMP_TOL
VertexCrossing(y_t, y_other_vertex) ==
    y_other_vertex < y_t \/ AbsLtTol(y_t - y_other_vertex)

is_line_segment_intersected(pt1, pt2, pt3) ==
    LET x1 == pt1[1]
        y1 == pt1[2]
        x2 == pt2[1]
        y2 == pt2[2]
        x3 == pt3[1]
        y3 == pt3[2]
        \* t = (y3 - y1) / (-y1 + y2) = tn / td
        tn == y3 - y1
        td == (0 - y1) + y2
        \* x_t = ((1 - t) * x1) + (t * x2) = xn / td
        xn == ((td - tn) * x1) + (tn * x2)
    IN IF IsHorizontal(y1, y2)
       THEN FALSE
       ELSE IF RatLt(xn, td, x3)
       THEN FALSE
       ELSE IF RatAbsLtTol(tn, td) \/ RatAbsLtTol(td - tn, td)
       THEN \* y_t = ((1 - t) * y1) + (t * y2) = y1 + t * (y2 - y1) = y1 + tn
            LET y_t == y1 + tn
                y_other_vertex == IF RatLt(2 * tn, td, 1) THEN y2 ELSE y1
            IN VertexCrossing(y_t, y_other_vertex)
       ELSE RatPos(tn, td) /\ RatLt(tn, td, 1)

SegStart ==
    /\ segment = None
    /\ crossed = FALSE

\* one call of is_line_segment_intersected, on any three points
call_is_line_segment_intersected ==
    /\ segment = None
    /\ \E pt1 \in VertexXs \X SegYs, pt2 \in VertexXs \X SegYs, pt3 \in Xs \X SegYs :
          /\ segment' = <<pt1, pt2, pt3>>
          /\ crossed' = is_line_segment_intersected(pt1, pt2, pt3)
    /\ UNCHANGED <<triVars, cbVars, locVars, wifiVars>>

(***************************************************************************)
(* is_hotspot_in_building(cb, pt): the crossing number of the ray from pt  *)
(* over the sides izip(cb.pts[:-1], cb.pts[1:]).                           *)
(***************************************************************************)
\* a point is in the building when the ray crosses any side at all
AnyCrossing(pts, pt) ==
    \E i \in 1..(Len(pts) - 1) : is_line_segment_intersected(pts[i], pts[i + 1], pt)

line_segment_crossings(pts, pt) ==
    [i \in 1..(Len(pts) - 1) |-> is_line_segment_intersected(pts[i], pts[i + 1], pt)]

is_hotspot_in_building(pts, pt) ==
    LET crossings == line_segment_crossings(pts, pt)
    IN Cardinality({i \in DOMAIN crossings : crossings[i]}) % 2 = 1

(***************************************************************************)
(* Building outlines.  The outlines read are simple polygons (the data     *)
(* model's closed ring of at least 3 distinct vertices, no two sides       *)
(* meeting except neighbours at their common vertex), of at most           *)
(* MaxVertices vertices, listed from their least vertex.                   *)
(***************************************************************************)
MaxVertices == 4
Points == Xs \X Ys
Vertices == VertexXs \X Ys

\* (b - a) x (c - a)
Cross(a, b, c) == ((b[1] - a[1]) * (c[2] - a[2])) - ((b[2] - a[2]) * (c[1] - a[1]))

Sign(v) == IF v > 0 THEN 1 ELSE IF v < 0 THEN 0 - 1 ELSE 0

Between(lo, v, hi) == (lo <= v /\ v <= hi) \/ (hi <= v /\ v <= lo)

\* p, on the line through a and b, is on the segment from a to b
InBox(a, b, p) == Between(a[1], p[1], b[1]) /\ Between(a[2], p[2], b[2])

OnSegment(a, b, p) == Cross(a, b, p) = 0 /\ InBox(a, b, p)

\* the segments a-b and c-d have a point in common
SegmentsMeet(a, b, c, d) ==
    \/ /\ Sign(Cross(a, b, c)) # Sign(Cross(a, b, d))
       /\ Sign(Cross(c, d, a)) # Sign(Cross(c, d, b))
    \/ OnSegment(a, b, c)
    \/ OnSegment(a, b, d)
    \/ OnSegment(c, d, a)
    \/ OnSegment(c, d, b)

PointLess(p, q) == p[1] < q[1] \/ (p[1] = q[1] /\ p[2] < q[2])

\* the sides a-b and b-c have only b in common
TurnsAt(a, b, c) == ~OnSegment(a, b, c) /\ ~OnSegment(b, c, a)

\* the open chain pts can take v as its next vertex
CanExtend(pts, v) ==
    /\ \A i \in 1..Len(pts) : pts[i] # v
    /\ Len(pts) >= 1 => PointLess(pts[1], v)
    /\ Len(pts) >= 2 => TurnsAt(pts[Len(pts) - 1], pts[Len(pts)], v)
    /\ \A i \in 1..(Len(pts) - 2) : ~SegmentsMeet(pts[i], pts[i + 1], pts[Len(pts)], v)

\* the open chain pts can be closed by the side from its last to its first vertex
CanClose(pts) ==
    /\ Len(pts) >= 3
    /\ TurnsAt(pts[Len(pts) - 1], pts[Len(pts)], pts[1])
    /\ TurnsAt(pts[Len(pts)], pts[1], pts[2])
    /\ \A i \in 2..(Len(pts) - 2) : ~SegmentsMeet(pts[i], pts[i + 1], pts[Len(pts)], pts[1])

CbStart ==
    /\ cb_pts = <<>>
    /\ hotspot_pt = None
    /\ in_building = FALSE
    /\ bpc = "parse"

\* __main__ reads the next vertex of the outline
parse_vertex ==
    /\ bpc = "parse"
    /\ Len(cb_pts) < MaxVertices
    /\ \E v \in Vertices :
          /\ CanExtend(cb_pts, v)
          /\ cb_pts' = Append(cb_pts, v)
    /\ UNCHANGED <<hotspot_pt, in_building, bpc>>

\* __main__ reads the last vertex, which repeats the first: CityBuilding(name, pts)
CityBuilding ==
    /\ bpc = "parse"
    /\ CanClose(cb_pts)
    /\ cb_pts' = Append(cb_pts, cb_pts[1])
    /\ bpc' = "parsed"
    /\ UNCHANGED <<hotspot_pt, in_building>>

\* one call of is_hotspot_in_building(cb, pt), on any point
call_is_hotspot_in_building ==
    /\ bpc = "parsed"
    /\ \E pt \in Points :
          /\ hotspot_pt' = Some(pt)
          /\ in_building' = is_hotspot_in_building(cb_pts, pt)
    /\ bpc' = "checked"
    /\ UNCHANGED cb_pts

CbNext ==
    \/ parse_vertex
    \/ CityBuilding
    \/ call_is_hotspot_in_building

(***************************************************************************)
(* hotspot_location(pt1, dxdy1, pt2, dxdy2).  A quotient q is the pair     *)
(* <<n, d>> of its numerator and its denominator; dividing by zero raises  *)
(* ZeroDivisionError.  The call ends as [raised |-> FALSE, value |-> v],   *)
(* v being None or <<(x, y)>> with x and y quotients, or as                *)
(* [raised |-> TRUE, value |-> None].                                      *)
(***************************************************************************)
Quot(a) == <<a, 1>>
QuotIsZero(q) == q[1] = 0
\* a sum that keeps its first term only
QuotAddFirst(p, q) == p
QuotAdd(p, q) == <<(p[1] * q[2]) + (q[1] * p[2]), p[2] * q[2]>>
QuotSub(p, q) == <<(p[1] * q[2]) - (q[1] * p[2]), p[2] * q[2]>>
QuotMul(p, q) == <<p[1] * q[1], p[2] * q[2]>>
RECURSIVE GCD(_, _)
GCD(a, b) == IF b = 0 THEN a ELSE GCD(b, a % b)
\* p / q, for q not zero, in lowest terms
QuotDiv(p, q) ==
    LET n == p[1] * q[2]
        d == p[2] * q[1]
        g == GCD(Abs(n), Abs(d))
    IN <<n \div g, d \div g>>

Returned(v) == [raised |-> FALSE, value |-> v]
ZeroDivisionError == [raised |-> TRUE, value |-> None]

\* the two directions are the same object only
SameDirectionExact(dxdy1, dxdy2) == dxdy1 = dxdy2

\* abs(dx1 - dx2) < POINT_CMP_TOL and abs(dy1 - dy2) < POINT_CMP_TOL
SameDirection(dxdy1, dxdy2) ==
    DirAbsLtTol(dxdy1[1] - dxdy2[1]) /\ DirAbsLtTol(dxdy1[2] - dxdy2[2])

hotspot_location(pt1, dxdy1, pt2, dxdy2) ==
    LET dx1 == dxdy1[1]
        dy1 == dxdy1[2]
        dx2 == dxdy2[1]
        dy2 == dxdy2[2]
        x1 == Quot(pt1[1])
        y1 == Quot(pt1[2])
        x2 == Quot(pt2[1])
        y2 == Quot(pt2[2])
    IN IF SameDirection(dxdy1, dxdy2)
       THEN Returned(None)
       ELSE IF DirAbsLtTol(dx1)
       THEN \* first radar line is vertical
            IF dx2 = 0 THEN ZeroDivisionError
            ELSE LET m2 == QuotDiv(Quot(dy2), Quot(dx2))
                     b2 == QuotSub(y2, QuotMul(m2, x2))
                     y_inter == QuotAdd(QuotMul(m2, x1), b2)
                 IN Returned(Some(<<x1, y_inter>>))
       ELSE IF DirAbsLtTol(dx2)
       THEN \* second radar line is vertical
            IF dx1 = 0 THEN ZeroDivisionError
            ELSE LET m1 == QuotDiv(Quot(dy1), Quot(dx1))
                     b1 == QuotSub(y1, QuotMul(m1, x1))
                     y_inter == QuotAdd(QuotMul(m1, x2), b1)
                 IN Returned(Some(<<x2, y_inter>>))
       ELSE \* both lines are non-vertical
            IF dx1 = 0 \/ dx2 = 0 THEN ZeroDivisionError
            ELSE LET m1 == QuotDiv(Quot(dy1), Quot(dx1))
                     b1 == QuotSub(y1, QuotMul(m1, x1))
                     m2 == QuotDiv(Quot(dy2), Quot(dx2))
                     b2 == QuotSub(y2, QuotMul(m2, x2))
                 IN IF QuotIsZero(QuotSub(m1, m2)) THEN ZeroDivisionError
                    ELSE LET x_inter == QuotDiv(QuotSub(b2, b1), QuotSub(m1, m2))
                             y_inter == QuotAdd(QuotMul(m1, x_inter), b1)
                         IN Returned(Some(<<x_inter, y_inter>>))

\* Radar points have coordinates of 0..MaxX; direction components are of
\* -MaxDir..MaxDir, not both zero.
MaxDir == 2
RadarPoints == (0..MaxX) \X (0..MaxX)
Directions == ((0 - MaxDir)..MaxDir) \X ((0 - MaxDir)..MaxDir) \ {<<0, 0>>}

LocStart ==
    /\ lines = None
    /\ location = None
    /\ lpc = "call"

\* one call of hotspot_location, on any two radar lines
call_hotspot_location ==
    /\ lpc = "call"
    /\ \E pt1 \in RadarPoints, dxdy1 \in Directions, pt2 \in RadarPoints, dxdy2 \in Directions :
          LET outcome == hotspot_location(pt1, dxdy1, pt2, dxdy2)
          IN /\ lines' = <<pt1, dxdy1, pt2, dxdy2>>
             /\ location' = outcome.value
             /\ lpc' = IF outcome.raised THEN "raised" ELSE "returned"
    /\ UNCHANGED <<triVars, segVars, cbVars, wifiVars>>

(***************************************************************************)
(* azimuth_to_vector(azi_deg), for the azimuths of whole quarter turns:    *)
(* (-cos(radians(azi_deg) + pi / 2), sin(radians(azi_deg) + pi / 2)), a    *)
(* vector of length 1, that is of DirOne direction units.                  *)
(***************************************************************************)
DirOne == DirTolUnits * TolDen
Azimuths == {0, 90, 180, 270}

\* cos and sin of `quarters` quarter turns
CosQuarters(quarters) ==
    IF quarters % 4 = 0 THEN 1 ELSE IF quarters % 4 = 2 THEN 0 - 1 ELSE 0
SinQuarters(quarters) ==
    IF quarters % 4 = 1 THEN 1 ELSE IF quarters % 4 = 3 THEN 0 - 1 ELSE 0

azimuth_to_vector(azi_deg) ==
    LET quarters == (azi_deg \div 90) + 1
    IN <<(0 - CosQuarters(quarters)) * DirOne, SinQuarters(quarters) * DirOne>>

(***************************************************************************)
(* hotspot_radar_locations(radar_data): radar_data is a sequence of        *)
(* <<pt, detected_hotspots>>, detected_hotspots a sequence of              *)
(* <<mac, azi_deg>>; the dictionary returned is a function from the MAC    *)
(* addresses seen to sequences of <<pt, dxdy>>.                            *)
(***************************************************************************)
\* no MAC address is ever found in the dictionary
InLocationsNever(radar_locations, mac) == FALSE

\* mac in radar_locations
InLocations(radar_locations, mac) == mac \in DOMAIN radar_locations

\* if mac not in radar_locations: radar_locations[mac] = []
\* radar_locations[mac].append(entry)
append_location(radar_locations, mac, entry) ==
    LET present == InLocations(radar_locations, mac)
        old == IF present THEN radar_locations[mac] ELSE <<>>
    IN [m \in DOMAIN radar_locations \cup {mac} |->
           IF m = mac THEN Append(old, entry) ELSE radar_locations[m]]

RECURSIVE detected_hotspots_loop(_, _, _, _)
\* for mac, azi_deg in detected_hotspots, from its j-th pair on
detected_hotspots_loop(radar_locations, pt, detected_hotspots, j) ==
    IF j > Len(detected_hotspots) THEN radar_locations
    ELSE LET mac == detected_hotspots[j][1]
             azi_deg == detected_hotspots[j][2]
         IN detected_hotspots_loop(
                append_location(radar_locations, mac, <<pt, azimuth_to_vector(azi_deg)>>),
                pt, detected_hotspots, j + 1)

RECURSIVE radar_data_loop(_, _, _)
\* for pt, detected_hotspots in radar_data, from its i-th element on
radar_data_loop(radar_locations, rdata, i) ==
    IF i > Len(rdata) THEN radar_locations
    ELSE radar_data_loop(
             detected_hotspots_loop(radar_locations, rdata[i][1], rdata[i][2], 1),
             rdata, i + 1)

hotspot_radar_locations(rdata) == radar_data_loop(<<>>, rdata, 1)

(***************************************************************************)
(* __main__ of wifi_search.py: the building lines are read, then the blank *)
(* line, then the radar lines; hotspot_radar_locations is called; every    *)
(* MAC address is processed; the confirmed buildings are printed.          *)
(***************************************************************************)
WifiStart ==
    /\ all_buildings = <<>>
    /\ radar_data = <<>>
    /\ hotspot_radar_lookup = <<>>
    /\ pending = {}
    /\ device = None
    /\ printed = <<>>
    /\ wpc = "city_map"

\* line == "\n": is_city_map_parsed = True
read_blank_line ==
    /\ wpc = "city_map"
    /\ wpc' = "radar_data"
    /\ UNCHANGED <<all_buildings, radar_data, hotspot_radar_lookup, pending, device, printed>>

\* Radar lines of any shape: at most MaxDetected detected hotspots in all,
\* over the lines, each line at one of RadarPts.
MaxDetected == 3
Macs == {"m1", "m2"}
RadarPts == {<<1, 0>>, <<5, TolUnits>>}

RECURSIVE DetectedUpTo(_, _)
\* the number of detected hotspots of the first n radar lines
DetectedUpTo(rdata, n) ==
    IF n = 0 THEN 0 ELSE DetectedUpTo(rdata, n - 1) + Len(rdata[n][2])

\* the radar point of a radar line is read
read_radar_pt ==
    /\ wpc = "radar_data"
    /\ IF radar_data = <<>> THEN TRUE ELSE radar_data[Len(radar_data)][2] # <<>>
    /\ DetectedUpTo(radar_data, Len(radar_data)) < MaxDetected
    /\ \E radar_pt \in RadarPts :
          radar_data' = Append(radar_data, <<radar_pt, <<>>>>)
    /\ UNCHANGED <<all_buildings, hotspot_radar_lookup, pending, device, printed, wpc>>

\* the next MAC address and azimuth of the radar line is read
read_mac_address ==
    /\ wpc = "radar_data"
    /\ radar_data # <<>>
    /\ DetectedUpTo(radar_data, Len(radar_data)) < MaxDetected
    /\ \E mac \in Macs, azi_deg \in Azimuths :
          radar_data' = [radar_data EXCEPT ![Len(radar_data)][2] = Append(@, <<mac, azi_deg>>)]
    /\ UNCHANGED <<all_buildings, hotspot_radar_lookup, pending, device, printed, wpc>>

\* hotspot_radar_lookup = hotspot_radar_locations(radar_data)
call_hotspot_radar_locations ==
    /\ wpc = "radar_data"
    /\ hotspot_radar_lookup' = hotspot_radar_locations(radar_data)
    /\ pending' = DOMAIN hotspot_radar_lookup'
    /\ wpc' = "devices"
    /\ UNCHANGED <<all_buildings, radar_data, device, printed>>

RadarNext ==
    \/ read_blank_line
    \/ read_radar_pt
    \/ read_mac_address
    \/ call_hotspot_radar_locations

(***************************************************************************)
(* The city maps read: the buildings "Left" and "Wide" overlap, Left being *)
(* the left half of Wide; a map lists them in either order, or fewer.      *)
(***************************************************************************)
LeftOutline ==
    <<<<0, 0>>, <<0, 2 * TolUnits>>, <<2, 2 * TolUnits>>, <<2, 0>>, <<0, 0>>>>
WideOutline ==
    <<<<0, 0>>, <<0, 2 * TolUnits>>, <<4, 2 * TolUnits>>, <<4, 0>>, <<0, 0>>>>

\* CityBuilding.__init__(name, pts)
NewCityBuilding(name, pts) == [name |-> name, pts |-> pts, has_confirmed_wifi |-> FALSE]

LeftBuilding == NewCityBuilding("Left", LeftOutline)
WideBuilding == NewCityBuilding("Wide", WideOutline)
CityMaps == {<<LeftBuilding, WideBuilding>>, <<WideBuilding, LeftBuilding>>}

\* all_buildings.append(CityBuilding(building_name, building_pts))
read_building ==
    /\ wpc = "city_map"
    /\ \E city_map \in CityMaps :
          /\ Len(all_buildings) < Len(city_map)
          /\ all_buildings = SubSeq(city_map, 1, Len(all_buildings))
          /\ all_buildings' = Append(all_buildings, city_map[Len(all_buildings) + 1])
    /\ UNCHANGED <<radar_data, hotspot_radar_lookup, pending, device, printed, wpc>>

\* Radar lines with one detected hotspot each, at most MaxRadarLines of
\* them: a radar point on the line y = TolUnits and an azimuth, 0 and 180
\* being along the vertical line through the point, 270 along y = TolUnits.
MaxRadarLines == 4
Sightings ==
    {<<<<1, TolUnits>>, 0>>, <<<<3, TolUnits>>, 0>>,
     <<<<5, TolUnits>>, 270>>, <<<<5, TolUnits>>, 180>>}

\* radar_data.append((radar_pt, mac_addresses)), for a line of one hotspot
read_radar_line ==
    /\ wpc = "radar_data"
    /\ Len(radar_data) < MaxRadarLines
    /\ \E sighting \in Sightings, mac \in Macs :
          radar_data' = Append(radar_data, <<sighting[1], <<<<mac, sighting[2]>>>>>>)
    /\ UNCHANGED <<all_buildings, hotspot_radar_lookup, pending, device, printed, wpc>>

(***************************************************************************)
(* The loop over the detected devices and the report.                      *)
(***************************************************************************)
\* The float of an exact quotient; the radar lines read meet at whole units.
Coordinate(q) == q[1] \div q[2]
HotspotPoint(found_pt) == <<Coordinate(found_pt[1]), Coordinate(found_pt[2])>>

\* if hotspot_pt is not None: break
IsLocatedNever(found_pt) == FALSE
IsLocated(found_pt) == found_pt # None

\* A scan that ends on the anchor's radar point when no line gives a location.
RECURSIVE scan_radar_lines_or_anchor(_, _, _, _)
scan_radar_lines_or_anchor(radar_pts_and_vecs, k, found_pt, consulted) ==
    IF k > Len(radar_pts_and_vecs)
    THEN [raised |-> FALSE,
          hotspot_pt |-> Some(<<Quot(radar_pts_and_vecs[1][1][1]),
                                Quot(radar_pts_and_vecs[1][1][2])>>),
          consulted |-> consulted]
    ELSE LET called == hotspot_location(radar_pts_and_vecs[1][1], radar_pts_and_vecs[1][2],
                                        radar_pts_and_vecs[k][1], radar_pts_and_vecs[k][2])
         IN  IF called.raised
             THEN [raised |-> TRUE, hotspot_pt |-> None,
                   consulted |-> Append(consulted, <<1, k>>)]
             ELSE IF IsLocated(called.value)
             THEN [raised |-> FALSE, hotspot_pt |-> called.value,
                   consulted |-> Append(consulted, <<1, k>>)]
             ELSE scan_radar_lines_or_anchor(radar_pts_and_vecs, k + 1, called.value,
                                             Append(consulted, <<1, k>>))

\* pt1, dxdy1 = radar_pts_and_vecs[0]; for pt2, dxdy2 in radar_pts_and_vecs[1:]
\* from the k-th entry on; consulted lists the pairs of entries handed to
\* hotspot_location, and raised tells that a call raised ZeroDivisionError.
RECURSIVE scan_radar_lines(_, _, _, _)
scan_radar_lines(radar_pts_and_vecs, k, found_pt, consulted) ==
    IF k > Len(radar_pts_and_vecs)
    THEN [raised |-> FALSE, hotspot_pt |-> found_pt, consulted |-> consulted]
    ELSE LET called == hotspot_location(radar_pts_and_vecs[1][1], radar_pts_and_vecs[1][2],
                                        radar_pts_and_vecs[k][1], radar_pts_and_vecs[k][2])
         IN  IF called.raised
             THEN [raised |-> TRUE, hotspot_pt |-> None,
                   consulted |-> Append(consulted, <<1, k>>)]
             ELSE IF IsLocated(called.value)
             THEN [raised |-> FALSE, hotspot_pt |-> called.value,
                   consulted |-> Append(consulted, <<1, k>>)]
             ELSE scan_radar_lines(radar_pts_and_vecs, k + 1, called.value,
                                   Append(consulted, <<1, k>>))

\* cb.has_confirmed_wifi
IsConfirmedNever(cb) == FALSE
IsConfirmed(cb) == cb.has_confirmed_wifi

\* A loop over the buildings that breaks at the first building it marks.
RECURSIVE confirm_buildings_break(_, _, _, _)
confirm_buildings_break(buildings, i, found_pt, marked) ==
    IF i > Len(buildings) \/ marked # <<>>
    THEN [buildings |-> buildings, marked |-> marked]
    ELSE IF /\ ~IsConfirmed(buildings[i])
            /\ is_hotspot_in_building(buildings[i].pts, HotspotPoint(found_pt))
    THEN confirm_buildings_break([buildings EXCEPT ![i].has_confirmed_wifi = TRUE],
                                 i + 1, found_pt, Append(marked, i))
    ELSE confirm_buildings_break(buildings, i + 1, found_pt, marked)

\* for cb in all_buildings: if (not cb.has_confirmed_wifi and
\* is_hotspot_in_building(cb, hotspot_pt)): cb.has_confirmed_wifi = True
\* from the i-th building on; marked lists the buildings whose flag was set.
RECURSIVE confirm_buildings(_, _, _, _)
confirm_buildings(buildings, i, found_pt, marked) ==
    IF i > Len(buildings)
    THEN [buildings |-> buildings, marked |-> marked]
    ELSE IF /\ ~IsConfirmed(buildings[i])
            /\ is_hotspot_in_building(buildings[i].pts, HotspotPoint(found_pt))
    THEN confirm_buildings([buildings EXCEPT ![i].has_confirmed_wifi = TRUE],
                           i + 1, found_pt, Append(marked, i))
    ELSE confirm_buildings(buildings, i + 1, found_pt, marked)

\* One iteration of "for mac_address, radar_pts_and_vecs in
\* hotspot_radar_lookup.iteritems()": the dictionary hands out the devices
\* in an order of its own.  device records what the iteration did.
process_device ==
    /\ wpc = "devices"
    /\ \E mac_address \in pending :
          LET radar_pts_and_vecs == hotspot_radar_lookup[mac_address]
              found == IF Len(radar_pts_and_vecs) < 2
                       THEN [raised |-> FALSE, hotspot_pt |-> None, consulted |-> <<>>]
                       ELSE scan_radar_lines(radar_pts_and_vecs, 2, None, <<>>)
              checked == IF found.hotspot_pt = None
                         THEN [buildings |-> all_buildings, marked |-> <<>>]
                         ELSE confirm_buildings(all_buildings, 1, found.hotspot_pt[1], <<>>)
          IN  /\ all_buildings' = checked.buildings
              /\ device' = Some([mac_address |-> mac_address,
                                 raised |-> found.raised,
                                 hotspot_pt |-> found.hotspot_pt,
                                 consulted |-> found.consulted,
                                 before |-> all_buildings,
                                 marked |-> checked.marked])
              /\ pending' = pending \ {mac_address}
              /\ wpc' = IF found.raised THEN "raised" ELSE "devices"
    /\ UNCHANGED <<radar_data, hotspot_radar_lookup, printed>>

\* for cb in all_buildings: if cb.has_confirmed_wifi: print cb.name
report ==
    /\ wpc = "devices"
    /\ pending = {}
    /\ printed' = LET confirmed == SelectSeq(all_buildings, IsConfirmed)
                  IN  [i \in 1..Len(confirmed) |-> confirmed[i].name]
    /\ wpc' = "reported"
    /\ UNCHANGED <<all_buildings, radar_data, hotspot_radar_lookup, pending, device>>

WifiNext ==
    \/ read_building
    \/ read_blank_line
    \/ read_radar_line
    \/ call_hotspot_radar_locations
    \/ process_device
    \/ report

(***************************************************************************)
(* Bounds of the triangle inputs: at most MaxRows rows of numbers of Vals. *)
(***************************************************************************)
MaxRows == 3
Vals == {0 - 1, 0, 2}

(***************************************************************************)
(* NumNode.__init__                                                        *)
(***************************************************************************)
NumNode(value) == [value |-> value, left |-> NoneRef, right |-> NoneRef, cached_sum |-> None]

TriStart ==
    /\ nums = <<>>
    /\ heap = <<>>
    /\ tree = None
    /\ stored = <<>>
    /\ result = None
    /\ tpc = "read"

(***************************************************************************)
(* __main__ of triangle_search.py reads one row per line; the rows drawn   *)
(* here are the well-formed ones: the next row has one more number.        *)
(***************************************************************************)
read_row ==
    /\ tpc = "read"
    /\ Len(nums) < MaxRows
    /\ \E row \in [1..(Len(nums) + 1) -> Vals] : nums' = Append(nums, row)
    /\ UNCHANGED <<heap, tree, stored, result, tpc>>

(***************************************************************************)
(* populate_tree(nums, num_list_level, num_list_index), on the heap and    *)
(* node_cache of st (node_cache maps <<level, index>> to a reference); the result carries the heap and cache it leaves and   *)
(* the reference it returns.                                               *)
(***************************************************************************)
\* a cache that never answers: every call constructs a node of its own
InCacheNever(cache, key) == FALSE

\* num_list_level in node_cache and num_list_index in node_cache[num_list_level]
InCache(cache, key) == key \in DOMAIN cache

RECURSIVE populate_tree(_, _, _, _)
populate_tree(st, nms, num_list_level, num_list_index) ==
    LET key == <<num_list_level, num_list_index>>
    IN IF InCache(st.node_cache, key)
       THEN [heap |-> st.heap, node_cache |-> st.node_cache, node |-> st.node_cache[key]]
       ELSE LET node == Len(st.heap) + 1
                made == [heap |-> Append(st.heap, NumNode(nms[num_list_level + 1][num_list_index + 1])),
                         node_cache |-> (key :> node) @@ st.node_cache]
            IN IF num_list_level # Len(nms) - 1
               THEN LET l == populate_tree(made, nms, num_list_level + 1, num_list_index)
                        withLeft == [heap |-> [l.heap EXCEPT ![node].left = l.node],
                                     node_cache |-> l.node_cache]
                        r == populate_tree(withLeft, nms, num_list_level + 1, num_list_index + 1)
                    IN [heap |-> [r.heap EXCEPT ![node].right = r.node],
                        node_cache |-> r.node_cache,
                        node |-> node]
               ELSE [heap |-> made.heap, node_cache |-> made.node_cache, node |-> node]

(***************************************************************************)
(* create_num_tree: raises on the empty list, else                         *)
(* NumTree(populate_tree(nums, 0, 0)).                                     *)
(***************************************************************************)
\* create_num_tree without its guard: an empty NumTree for the empty list
create_num_tree_unguarded ==
    /\ tpc = "read"
    /\ IF Len(nums) = 0
       THEN /\ tree' = Some(NoneRef)
            /\ tpc' = "built"
            /\ UNCHANGED heap
       ELSE LET built == populate_tree([heap |-> <<>>, node_cache |-> <<>>], nums, 0, 0)
            IN /\ heap' = built.heap
               /\ tree' = Some(built.node)
               /\ tpc' = "built"
    /\ UNCHANGED <<nums, stored, result>>

create_num_tree ==
    /\ tpc = "read"
    /\ IF Len(nums) = 0
       THEN /\ tpc' = "raised"
            /\ UNCHANGED <<heap, tree>>
       ELSE LET built == populate_tree([heap |-> <<>>, node_cache |-> <<>>], nums, 0, 0)
            IN /\ heap' = built.heap
               /\ tree' = Some(built.node)
               /\ tpc' = "built"
    /\ UNCHANGED <<nums, stored, result>>

(***************************************************************************)
(* find_max(node), on the heap of st; the result carries the heap it       *)
(* leaves, the value it returns and, appended to st.stored, the nodes      *)
(* whose cached_sum it assigned, in the order of the assignments.          *)
(***************************************************************************)
\* find_max without "elif node.cached_sum is not None": every visit computes
RECURSIVE find_max_uncached(_, _)
find_max_uncached(st, node) ==
    IF node = NoneRef
    THEN [heap |-> st.heap, stored |-> st.stored, sum |-> 0]
    ELSE LET l == find_max_uncached(st, st.heap[node].left)
             r == find_max_uncached([heap |-> l.heap, stored |-> l.stored], l.heap[node].right)
             cached_sum == r.heap[node].value + Max(l.sum, r.sum)
         IN [heap |-> [r.heap EXCEPT ![node].cached_sum = Some(cached_sum)],
             stored |-> Append(r.stored, node),
             sum |-> cached_sum]

RECURSIVE find_max(_, _)
find_max(st, node) ==
    IF node = NoneRef
    THEN [heap |-> st.heap, stored |-> st.stored, sum |-> 0]
    ELSE IF st.heap[node].cached_sum # None
    THEN [heap |-> st.heap, stored |-> st.stored, sum |-> st.heap[node].cached_sum[1]]
    ELSE LET l == find_max(st, st.heap[node].left)
             r == find_max([heap |-> l.heap, stored |-> l.stored], l.heap[node].right)
             cached_sum == r.heap[node].value + Max(l.sum, r.sum)
         IN [heap |-> [r.heap EXCEPT ![node].cached_sum = Some(cached_sum)],
             stored |-> Append(r.stored, node),
             sum |-> cached_sum]

(***************************************************************************)
(* find_max_sum(tree): return find_max(tree.root)                          *)
(***************************************************************************)
find_max_sum ==
    /\ tpc = "built"
    /\ LET found == find_max([heap |-> heap, stored |-> <<>>], tree[1])
       IN /\ heap' = found.heap
          /\ stored' = found.stored
          /\ result' = Some(found.sum)
    /\ UNCHANGED <<nums, tree, tpc>>

TriNext ==
    \/ read_row
    \/ create_num_tree
    \/ find_max_sum

(***************************************************************************)
(* The specifications: one per program or function under study, the state  *)
(* of the others left at its start.                                        *)
(***************************************************************************)
Init == TriStart /\ SegStart /\ CbStart /\ LocStart /\ WifiStart

SpecTriangle == Init /\ [][TriNext /\ UNCHANGED <<segVars, cbVars, locVars, wifiVars>>]_vars

SpecSegment == Init /\ [][call_is_line_segment_intersected]_vars

SpecBuilding == Init /\ [][CbNext /\ UNCHANGED <<triVars, segVars, locVars, wifiVars>>]_vars

SpecLocation == Init /\ [][call_hotspot_location]_vars

SpecRadar == Init /\ [][RadarNext /\ UNCHANGED <<triVars, segVars, cbVars, locVars>>]_vars
SpecWifi == Init /\ [][WifiNext /\ UNCHANGED <<triVars, segVars, cbVars, locVars>>]_vars

(***************************************************************************)
(* Root-to-leaf paths, enumerated: a path is the sequence of its steps,    *)
(* 0 for (level+1, index) and 1 for (level+1, index+1).                    *)
(***************************************************************************)
Paths(n) == [1..(n - 1) -> {0, 1}]

RECURSIVE IndexAt(_, _)
\* the index a path has reached at a level
IndexAt(p, level) == IF level = 0 THEN 0 ELSE IndexAt(p, level - 1) + p[level]

RECURSIVE PathSumTo(_, _, _)
\* the sum of the values on the path, levels 0..level
PathSumTo(nms, p, level) ==
    nms[level + 1][IndexAt(p, level) + 1]
        + (IF level = 0 THEN 0 ELSE PathSumTo(nms, p, level - 1))

PathSums(nms) == {PathSumTo(nms, p, Len(nms) - 1) : p \in Paths(Len(nms))}

MaxPathSum(nms) ==
    LET sums == PathSums(nms)
    IN CHOOSE m \in sums : \A s \in sums : m >= s

\* C1: once find_max_sum has returned, its result is the maximum over all
\* root-to-leaf paths of the sum of the values on the path; for a single
\* row it is that row's value.
C1_MaxSumIsMaxOverPaths ==
    result # None =>
        /\ result[1] = MaxPathSum(nums)
        /\ Len(nums) = 1 => result[1] = nums[1][1]

\* find_max_sum has returned for a triangle of three rows whose best path is
\* neither the leftmost nor the rightmost one, over negative, zero and
\* positive values
C1_Witness ==
    /\ result # None
    /\ Len(nums) = 3
    /\ result[1] > PathSumTo(nums, [k \in 1..2 |-> 0], 2)
    /\ result[1] > PathSumTo(nums, [k \in 1..2 |-> 1], 2)
    /\ \E i \in 1..3 : nums[3][i] < 0
    /\ \E i \in 1..3 : nums[3][i] = 0

(***************************************************************************)
(* The node of position (level, index), found from the root by walking     *)
(* `index` steps right and then `level - index` steps left; NoneRef when a *)
(* step leaves the tree.                                                   *)
(***************************************************************************)
RECURSIVE NodeAt(_, _)
NodeAt(level, index) ==
    IF level = 0 THEN tree[1]
    ELSE LET from == IF index = level THEN NodeAt(level - 1, index - 1)
                     ELSE NodeAt(level - 1, index)
         IN IF from = NoneRef THEN NoneRef
            ELSE IF index = level THEN heap[from].right ELSE heap[from].left

Positions(n) == {pos \in (0..(n - 1)) \X (0..(n - 1)) : pos[2] <= pos[1]}

\* create_num_tree has returned a NumTree
Built == tpc = "built"

\* C2: create_num_tree builds exactly one node per (level, index), n(n+1)/2
\* in all: the node of (level, index) holds nums[level][index], its left
\* child is the node of (level+1, index) and its right child the node of
\* (level+1, index+1), so that the right child of (level, index-1) and the
\* left child of (level, index) are one object; nodes of the last level have
\* no children.
C2_OneSharedNodePerPosition ==
    Built =>
        LET n == Len(nums)
        IN /\ 2 * Len(heap) = n * (n + 1)
           /\ Cardinality({NodeAt(pos[1], pos[2]) : pos \in Positions(n)}) = Len(heap)
           /\ \A pos \in Positions(n) :
                 LET level == pos[1]
                     index == pos[2]
                     node == NodeAt(level, index)
                 IN /\ node \in 1..Len(heap)
                    /\ heap[node].value = nums[level + 1][index + 1]
                    /\ level = n - 1 =>
                          /\ heap[node].left = NoneRef
                          /\ heap[node].right = NoneRef
                    /\ level < n - 1 =>
                          /\ heap[node].left = NodeAt(level + 1, index)
                          /\ heap[node].right = NodeAt(level + 1, index + 1)
                    /\ (level < n - 1 /\ index > 0) =>
                          heap[NodeAt(level, index - 1)].right = heap[node].left

\* a tree of three rows is built: the middle node of its last row is the
\* right child of (1, 0) and the left child of (1, 1)
C2_Witness ==
    /\ Built
    /\ Len(nums) = 3
    /\ heap[heap[tree[1]].left].right = heap[heap[tree[1]].right].left
    /\ heap[heap[tree[1]].left].right # NoneRef
    /\ Len(heap) = 6

\* C3: create_num_tree on the empty list raises: it returns no NumTree and
\* constructs no node.
C3_EmptyInputRaises ==
    (tpc # "read" /\ Len(nums) = 0) =>
        /\ tpc = "raised"
        /\ tree = None
        /\ heap = <<>>

\* create_num_tree was called with the empty list
C3_Witness == tpc = "raised" /\ nums = <<>>

(***************************************************************************)
(* The segment and the ray of the last is_line_segment_intersected call,   *)
(* described from the geometry.                                            *)
(***************************************************************************)
SegCalled == segment # None
SegX1 == segment[1][1]
SegY1 == segment[1][2]
SegX2 == segment[2][1]
SegY2 == segment[2][2]
RayX == segment[3][1]
RayY == segment[3][2]

SegNonHorizontal == ~AbsLtTol(SegY1 - SegY2)

\* the line through the segment meets the ray's horizontal line at or to the
\* right of the ray origin:
\* x1 + (y3 - y1) * (x2 - x1) / (y2 - y1) >= x3
CrossingNotLeft ==
    LET across == ((SegX1 - RayX) * (SegY2 - SegY1)) + ((RayY - SegY1) * (SegX2 - SegX1))
    IN IF SegY2 > SegY1 THEN across >= 0 ELSE across <= 0

\* the ray passes through pt1, pt2 (t within the tolerance of 0, of 1)
RayThroughPt1 == RatAbsLtTol(RayY - SegY1, SegY2 - SegY1)
RayThroughPt2 == RatAbsLtTol(SegY2 - RayY, SegY2 - SegY1)

\* 0 < t < 1: the ray's line is strictly between the endpoints
RayStrictlyBetween ==
    \/ SegY1 < RayY /\ RayY < SegY2
    \/ SegY2 < RayY /\ RayY < SegY1

C7_HorizontalOnRayCrossed ==
    (/\ SegCalled
     /\ SegY1 = SegY2
     /\ RayY = SegY1
     /\ SegX1 # SegX2
     /\ RayX < SegX1
     /\ RayX < SegX2) => crossed

(***************************************************************************)
(* The interior of a ring, found without the horizontal ray: a ray from pt *)
(* in the direction (SlantRun, 1) passes through no vertex (the next       *)
(* lattice point on it is outside the grid), so it crosses a side exactly  *)
(* when the side's end points are strictly on opposite sides of its line   *)
(* and the crossing is ahead of pt; pt is interior when it crosses an odd  *)
(* number of sides.                                                        *)
(***************************************************************************)
SlantRun == (2 * MaxX) + 1

\* (SlantRun, 1) x (v - pt)
SlantSide(pt, v) == (SlantRun * (v[2] - pt[2])) - (v[1] - pt[1])

SlantCrossed(a, b, pt) ==
    /\ Sign(SlantSide(pt, a)) * Sign(SlantSide(pt, b)) = 0 - 1
    /\ Sign(Cross(pt, a, b)) = Sign(SlantSide(pt, b) - SlantSide(pt, a))

Sides(pts) == 1..(Len(pts) - 1)

Interior(pts, pt) ==
    Cardinality({i \in Sides(pts) : SlantCrossed(pts[i], pts[i + 1], pt)}) % 2 = 1

OnBoundary(pts, pt) == \E i \in Sides(pts) : OnSegment(pts[i], pts[i + 1], pt)

RECURSIVE CrossingsUpTo(_, _, _)
\* the number of the first n sides for which is_line_segment_intersected is True
CrossingsUpTo(pts, pt, n) ==
    IF n = 0 THEN 0
    ELSE CrossingsUpTo(pts, pt, n - 1)
             + (IF is_line_segment_intersected(pts[n], pts[n + 1], pt) THEN 1 ELSE 0)

OddCrossings(pts, pt) == CrossingsUpTo(pts, pt, Len(pts) - 1) % 2 = 1

Checked == bpc = "checked"

\* C4: for a simple ring and a point not on its boundary,
\* is_hotspot_in_building returns True exactly when the number of sides
\* for which is_line_segment_intersected is True is odd, and exactly when
\* the point is interior.
C4_OddCrossingsIffInterior ==
    (Checked /\ ~OnBoundary(cb_pts, hotspot_pt[1])) =>
        /\ in_building <=> OddCrossings(cb_pts, hotspot_pt[1])
        /\ in_building <=> Interior(cb_pts, hotspot_pt[1])

\* C8: a point on the boundary of the ring, a vertex or a point of a side,
\* is found in the building.
C8_BoundaryPointInBuilding ==
    (Checked /\ OnBoundary(cb_pts, hotspot_pt[1])) => in_building

\* hotspot_location has been called
LocCalled == lpc # "call"

\* C9: hotspot_location returns a point or None and never raises, for any
\* two points and any two non-zero directions, opposite directions, two
\* vertical lines and collinear lines included.
C9_HotspotLocationNeverRaises ==
    LocCalled => lpc = "returned"

\* the directions of the two lines of the call differ by less than the
\* tolerance in each component
DirectionsWithinTol ==
    /\ Abs(lines[2][1] - lines[4][1]) < DirTolUnits
    /\ Abs(lines[2][2] - lines[4][2]) < DirTolUnits

\* C10: hotspot_location returns None whenever the two directions are equal
\* component-wise within the tolerance, whatever the two origins.
C10_SameDirectionNoLocation ==
    (LocCalled /\ DirectionsWithinTol) => (lpc = "returned" /\ location = None)

\* hotspot_location returned None for two lines of different origins whose
\* directions differ, by less than the tolerance, the first not vertical
C10_Witness ==
    /\ lpc = "returned"
    /\ location = None
    /\ DirectionsWithinTol
    /\ lines[1] # lines[3]
    /\ lines[2] # lines[4]
    /\ ~DirAbsLtTol(lines[2][1])

\* the point <<x, y>> of quotients is on the line through pt with the
\* direction dxdy: (x - pt.x) * dy = (y - pt.y) * dx
OnLine(q, pt, dxdy) ==
    LET x == q[1]
        y == q[2]
    IN ((x[1] - (pt[1] * x[2])) * dxdy[2]) * y[2]
           = ((y[1] - (pt[2] * y[2])) * dxdy[1]) * x[2]

\* the x component of the direction is exactly 0 or at least the tolerance
VerticalOrNot(dxdy) == dxdy[1] = 0 \/ Abs(dxdy[1]) >= DirTolUnits

\* C11: a point returned by hotspot_location is on the line through pt1
\* with direction dir1 and on the line through pt2 with direction dir2, for
\* directions whose x component is exactly 0 or at least the tolerance,
\* whichever of the three branches computed it.
C11_LocationOnBothLines ==
    (/\ lpc = "returned"
     /\ location # None
     /\ VerticalOrNot(lines[2])
     /\ VerticalOrNot(lines[4])) =>
        /\ OnLine(location[1], lines[1], lines[2])
        /\ OnLine(location[1], lines[3], lines[4])

\* the spec's example, scaled: the diagonal from pt1 and the vertical line
\* through pt2, one to the right of pt1, meet one above pt2
C11_Witness ==
    /\ lpc = "returned"
    /\ location # None
    /\ lines[2][1] = lines[2][2]
    /\ lines[2][1] >= DirTolUnits
    /\ lines[4][1] = 0
    /\ lines[3] = <<lines[1][1] + 1, lines[1][2]>>
    /\ OnLine(location[1], lines[1], lines[2])
    /\ location[1][1][1] = lines[3][1] * location[1][1][2]
    /\ location[1][2][1] = (lines[3][2] + 1) * location[1][2][2]

(***************************************************************************)
(* The (device, azimuth) pairs of the radar input, by position: <<i, j>>   *)
(* is the j-th pair of the i-th radar line.                                *)
(***************************************************************************)
PairPositions ==
    UNION {{<<i, j>> : j \in 1..Len(radar_data[i][2])} : i \in 1..Len(radar_data)}

MacAt(p) == radar_data[p[1]][2][p[2]][1]
AzimuthAt(p) == radar_data[p[1]][2][p[2]][2]
PairsOf(mac) == {p \in PairPositions : MacAt(p) = mac}

\* input order: line by line, and within a line pair by pair
PairBefore(p, q) == p[1] < q[1] \/ (p[1] = q[1] /\ p[2] < q[2])

\* the place of the pair at p among the pairs of its device
PairRank(p) == 1 + Cardinality({q \in PairsOf(MacAt(p)) : PairBefore(q, p)})

LookedUp == wpc \notin {"city_map", "radar_data"}

\* C12: the keys of the mapping are exactly the device ids of the input;
\* the list of a device has one entry per pair of that device, the entry of
\* a pair standing at the pair's place in input order among the device's
\* pairs and holding the radar point of the pair's line and the vector of
\* the pair's azimuth.
C12_OneEntryPerPairInOrder ==
    LookedUp =>
        /\ DOMAIN hotspot_radar_lookup = {MacAt(p) : p \in PairPositions}
        /\ \A mac \in DOMAIN hotspot_radar_lookup :
              Len(hotspot_radar_lookup[mac]) = Cardinality(PairsOf(mac))
        /\ \A p \in PairPositions :
              hotspot_radar_lookup[MacAt(p)][PairRank(p)]
                  = <<radar_data[p[1]][1], azimuth_to_vector(AzimuthAt(p))>>

\* two lines at different points were looked up: the first names "m1" with
\* one azimuth, then "m2", the second names "m1" with another azimuth
C12_Witness ==
    /\ LookedUp
    /\ Len(radar_data) = 2
    /\ radar_data[1][1] # radar_data[2][1]
    /\ Len(radar_data[1][2]) = 2
    /\ radar_data[1][2][1][1] = "m1"
    /\ radar_data[1][2][2][1] = "m2"
    /\ Len(radar_data[2][2]) = 1
    /\ radar_data[2][2][1][1] = "m1"
    /\ radar_data[2][2][1][2] # radar_data[1][2][1][2]
    /\ Len(hotspot_radar_lookup["m1"]) = 2
    /\ hotspot_radar_lookup["m1"][2][1] = radar_data[2][1]

(***************************************************************************)
(* The loop over the devices.                                              *)
(***************************************************************************)
Processed == device # None
Device == device[1]
Observations == hotspot_radar_lookup[Device.mac_address]
LineResult(k) ==
    hotspot_location(Observations[1][1], Observations[1][2],
                     Observations[k][1], Observations[k][2])

\* C13: for a device with two observations or more, where no call of
\* hotspot_location raises, the anchor is the first observation, the
\* remaining observations are tried against it in order, one after the
\* other from the second on, every one tried before the last gives None,
\* the device's location is what the last one tried gives, and the scan
\* goes to the end of the list only while it gets None.
C13_AnchorScanStopsAtFirstLocation ==
    (Processed /\ Len(Observations) >= 2 /\ ~Device.raised) =>
        LET tried == Len(Device.consulted)
        IN  /\ tried >= 1
            /\ tried <= Len(Observations) - 1
            /\ \A i \in 1..tried : Device.consulted[i] = <<1, i + 1>>
            /\ \A i \in 1..(tried - 1) : LineResult(i + 1).value = None
            /\ Device.hotspot_pt = LineResult(tried + 1).value
            /\ (Device.hotspot_pt = None => tried = Len(Observations) - 1)

\* a device seen four times: the second line gave nothing, the third gave
\* the location, and the fourth was not tried
C13_Witness ==
    /\ Processed
    /\ Len(Observations) = 4
    /\ ~Device.raised
    /\ Device.consulted = <<<<1, 2>>, <<1, 3>>>>
    /\ Device.hotspot_pt # None
    /\ LineResult(2).value = None

\* the device processed last could not be located: it was seen fewer than
\* two times, or every line after its first gives None against the first
Undetermined ==
    \/ Len(Observations) < 2
    \/ \A k \in 2..Len(Observations) :
          ~LineResult(k).raised /\ LineResult(k).value = None

\* C14: processing a device with fewer than two observations, or one for
\* which every remaining observation gives None against the anchor, leaves
\* every building as it was before, its has_confirmed_wifi flag included.
C14_UndeterminedChangesNoFlag ==
    (Processed /\ Undetermined) =>
        /\ all_buildings = Device.before
        /\ Device.marked = <<>>
        /\ Device.hotspot_pt = None

\* a device seen twice along the same direction was processed after another
\* device had confirmed a building, while a building that contains the
\* device's two radar points is still unconfirmed
C14_Witness ==
    /\ Processed
    /\ Len(Observations) = 2
    /\ Undetermined
    /\ \E i \in 1..Len(all_buildings) : all_buildings[i].has_confirmed_wifi
    /\ \E i \in 1..Len(all_buildings) :
          /\ ~all_buildings[i].has_confirmed_wifi
          /\ is_hotspot_in_building(all_buildings[i].pts, Observations[1][1])
          /\ is_hotspot_in_building(all_buildings[i].pts, Observations[2][1])

\* the device processed last was located, at the point Location
Located == Processed /\ Device.hotspot_pt # None
Location == HotspotPoint(Device.hotspot_pt[1])

\* the buildings, by place in the input, that were unconfirmed before the
\* device was processed and contain its location
UnconfirmedAround ==
    {i \in 1..Len(Device.before) :
        /\ ~Device.before[i].has_confirmed_wifi
        /\ is_hotspot_in_building(Device.before[i].pts, Location)}

Least(S) == CHOOSE i \in S : \A j \in S : i <= j

Reported == wpc = "reported"

\* the location of a device as it is determined from its observations
\* alone: what the first line that gives a location against the device's
\* first line gives, if there is one
RECURSIVE FirstLocationFrom(_, _)
FirstLocationFrom(observations, k) ==
    IF k > Len(observations) THEN None
    ELSE LET called == hotspot_location(observations[1][1], observations[1][2],
                                        observations[k][1], observations[k][2])
         IN  IF called.value # None THEN called.value
             ELSE FirstLocationFrom(observations, k + 1)

DeterminedLocations ==
    {HotspotPoint(FirstLocationFrom(hotspot_radar_lookup[mac], 2)[1]) :
        mac \in {m \in DOMAIN hotspot_radar_lookup :
                    FirstLocationFrom(hotspot_radar_lookup[m], 2) # None}}

\* the buildings, by place in the input, that contain the location of a device
WithHotspot ==
    {i \in 1..Len(all_buildings) :
        \E pt \in DeterminedLocations : is_hotspot_in_building(all_buildings[i].pts, pt)}

\* C16: when the report is made, whatever the order the devices were taken
\* in, the buildings with has_confirmed_wifi set are exactly the buildings
\* that contain the determined location of at least one device, and the
\* names printed are theirs, in input order, each once.
C16_ReportedAreBuildingsWithHotspot ==
    Reported =>
        /\ \A i \in 1..Len(all_buildings) :
              all_buildings[i].has_confirmed_wifi <=> i \in WithHotspot
        /\ Len(printed) = Cardinality(WithHotspot)
        /\ \A k \in 1..Len(printed) :
              \E i \in WithHotspot :
                  /\ printed[k] = all_buildings[i].name
                  /\ Cardinality({j \in WithHotspot : j < i}) = k - 1

\* two devices were located, one inside both overlapping buildings and one
\* inside the wide building only, the wide building listed first: both
\* names were printed, the wide building's first
C16_Witness ==
    /\ Reported
    /\ Cardinality(DOMAIN hotspot_radar_lookup) = 2
    /\ Cardinality(DeterminedLocations) = 2
    /\ \E pt \in DeterminedLocations :
          \A i \in 1..Len(all_buildings) : is_hotspot_in_building(all_buildings[i].pts, pt)
    /\ \E pt \in DeterminedLocations :
          \E i \in 1..Len(all_buildings) : ~is_hotspot_in_building(all_buildings[i].pts, pt)
    /\ printed = <<"Wide", "Left">>

(***************************************************************************)
(* The cache of find_max.                                                  *)
(***************************************************************************)
\* the sums of the paths that go down from a node to the last row
RECURSIVE PathSumsBelow(_, _)
PathSumsBelow(hp, node) ==
    IF node = NoneRef THEN {0}
    ELSE {hp[node].value + s :
            s \in PathSumsBelow(hp, hp[node].left) \cup PathSumsBelow(hp, hp[node].right)}

MaxSumFrom(hp, node) ==
    CHOOSE s \in PathSumsBelow(hp, node) : \A t \in PathSumsBelow(hp, node) : s >= t

\* C17: a call of find_max_sum on the built tree
\*  - computes the sum of every node exactly once when it is the first call
\*    (as many assignments of cached_sum as nodes, one per node), and of no
\*    node when it is a later call, which returns the same result;
\*  - leaves a cached_sum that is set as it is;
\*  - leaves every set cached_sum equal to the node's value plus the
\*    greatest path sum below the node;
\*  - leaves value, left and right of every node as they are.
C17_SumOfNodeComputedOnceAndKept ==
    [][(tpc = "built" /\ tpc' = "built") =>
          /\ Len(heap') = Len(heap)
          /\ result = None =>
                /\ Len(stored') = Len(heap)
                /\ {stored'[i] : i \in 1..Len(stored')} = 1..Len(heap)
          /\ result # None =>
                /\ stored' = <<>>
                /\ result' = result
          /\ \A node \in 1..Len(heap) :
                /\ heap[node].cached_sum # None =>
                      heap'[node].cached_sum = heap[node].cached_sum
                /\ heap'[node].cached_sum # None =>
                      heap'[node].cached_sum = Some(MaxSumFrom(heap, node))
                /\ heap'[node].value = heap[node].value
                /\ heap'[node].left = heap[node].left
                /\ heap'[node].right = heap[node].right]_vars

\* find_max_sum was called a second time on a tree of three rows whose
\* middle node of the last row is the best end below both nodes of the
\* second row: the second call computed nothing and every sum is cached
C17_Witness ==
    /\ tpc = "built"
    /\ Len(nums) = 3
    /\ nums[3][2] > nums[3][1]
    /\ nums[3][2] > nums[3][3]
    /\ result # None
    /\ stored = <<>>
    /\ \A node \in 1..Len(heap) : heap[node].cached_sum # None

(***************************************************************************)
(* The ray through a vertex of the outline.                                *)
(***************************************************************************)
\* the vertices of the outline read, by place; the side that ends at a
\* vertex starts at the vertex before it, which for the first vertex is
\* the last vertex before the ring closes
Corners == 1..(Len(cb_pts) - 1)
Before(v) == cb_pts[IF v = 1 THEN Len(cb_pts) - 1 ELSE v - 1]
After(v) == cb_pts[v + 1]

\* the ray from the point checked passes exactly through the vertex, which
\* is not left of the point, and the two sides at the vertex are not
\* horizontal (they rise or fall by the tolerance or more)
RayThroughCorner(v) ==
    /\ hotspot_pt[1][2] = cb_pts[v][2]
    /\ hotspot_pt[1][1] <= cb_pts[v][1]
    /\ Abs(Before(v)[2] - cb_pts[v][2]) >= TolUnits
    /\ Abs(After(v)[2] - cb_pts[v][2]) >= TolUnits

\* the crossings the two sides at the vertex contribute to the count
CornerCrossings(v) ==
    (IF is_line_segment_intersected(Before(v), cb_pts[v], hotspot_pt[1]) THEN 1 ELSE 0)
        + (IF is_line_segment_intersected(cb_pts[v], After(v), hotspot_pt[1]) THEN 1 ELSE 0)

OppositeSides(v) == (Before(v)[2] < cb_pts[v][2]) # (After(v)[2] < cb_pts[v][2])

\* C18: when the ray passes exactly through a vertex not left of its
\* origin, the two sides at the vertex being non-horizontal, the two sides
\* together count one crossing if their other ends are on opposite sides
\* of the ray's line, and none or two if they are on the same side.
C18_VertexCountedOnceWhenCrossed ==
    Checked =>
        \A v \in Corners :
            RayThroughCorner(v) =>
                IF OppositeSides(v)
                THEN CornerCrossings(v) = 1
                ELSE CornerCrossings(v) \in {0, 2}

\* the ray starts left of a vertex where the outline goes from below the
\* ray's line to above it; the sides at the vertex count one crossing
C18_Witness ==
    /\ Checked
    /\ \E v \in Corners :
          /\ RayThroughCorner(v)
          /\ hotspot_pt[1][1] < cb_pts[v][1]
          /\ OppositeSides(v)
          /\ CornerCrossings(v) = 1

====
